---- MODULE Spec2Model ----
(***************************************************************************)
(* The merge algebra of rust-stats (src/src/lib.rs): the Commute trait,    *)
(* merge_all, the Option / Result / Vec instances, and the Partial         *)
(* total-order adapter.                                                    *)
(*                                                                         *)
(* Values are records [tag, val]:                                          *)
(*   None = [tag |-> "None", val |-> <<>>]   Some(x) = ["Some", <<x>>]     *)
(*   Ok(x) = ["Ok", <<x>>]                   Err(e)  = ["Err", <<e>>]      *)
(*   vec![x1..xn] = ["Vec", <<x1..xn>>]      Sorted  = ["Sorted", sorted]  *)
(* A merge yields [ok, val]: val is the state of `self` when the call      *)
(* ends, ok is FALSE when the call ended in a panic.                       *)
(***************************************************************************)
EXTENDS Integers, Sequences, FiniteSets, TLC

VARIABLES ty, s, i, init, pc, ret,
          xs, ords,
          obs, sorted, merged, modeRes, tpc

vars == <<ty, s, i, init, pc, ret, xs, ords, obs, sorted, merged, modeRes, tpc>>
mergeVars == <<ty, s, i, init, pc, ret>>
partialVars == <<xs, ords>>
testVars == <<obs, sorted, merged, modeRes, tpc>>

\* ---------------------------------------------------------------- bounds
\* longest stream handed to merge_all
MaxSeq == 3
\* longest Vec<T> operand (a Vec nested in another value is one shorter)
MaxLen == 2
\* observations are 1..MaxVal, at most MaxObs per Sorted
MaxVal == 3
MaxObs == 2
\* the finite floats the Partial adapter is tried on are 0..MaxFloat
MaxFloat == 2

\* ---------------------------------------------------------------- values
None == [tag |-> "None", val |-> <<>>]
Some(x) == [tag |-> "Some", val |-> <<x>>]
Ok(x) == [tag |-> "Ok", val |-> <<x>>]
Err(e) == [tag |-> "Err", val |-> <<e>>]
Vec(elems) == [tag |-> "Vec", val |-> elems]
Sorted(elems) == [tag |-> "Sorted", val |-> elems]
\* a local that holds no value yet
Unset == [tag |-> "Unset", val |-> <<>>]

IsNone(x) == x.tag = "None"
IsSome(x) == x.tag = "Some"
IsOk(x) == x.tag = "Ok"
IsErr(x) == x.tag = "Err"
IsVec(x) == x.tag = "Vec"
\* the payload of Some(x) / Ok(x)
Unwrap(x) == x.val[1]

Errors == {"e1", "e2"}

SeqsUpTo(S, n) == UNION {[1..k -> S] : k \in 0..n}

\* ------------------------------------------------- Sorted (sorted.rs, absent)
RECURSIVE Interleave(_, _)
Interleave(a, b) ==
    IF a = <<>> THEN b
    ELSE IF b = <<>> THEN a
    ELSE IF Head(a) <= Head(b) THEN <<Head(a)>> \o Interleave(Tail(a), b)
    ELSE <<Head(b)>> \o Interleave(a, Tail(b))

\* Sorted::merge: union of the two multisets, sortedness kept
SortedMerge(self, other) ==
    [ok |-> TRUE, val |-> Sorted(Interleave(self.val, other.val))]

\* collect(): the observations inserted one at a time
RECURSIVE collect(_)
collect(o) ==
    IF o = <<>> THEN Sorted(<<>>)
    ELSE Sorted(Interleave(collect(Tail(o)).val, <<Head(o)>>))

Count(elems, v) == Cardinality({k \in DOMAIN elems : elems[k] = v})

\* Sorted::mode: the first value, in sorted order, of greatest multiplicity
mode(self) ==
    IF self.val = <<>> THEN None
    ELSE LET e == self.val
             k == CHOOSE k \in DOMAIN e :
                    /\ \A j \in DOMAIN e : Count(e, e[j]) <= Count(e, e[k])
                    /\ \A j \in 1..(k - 1) : Count(e, e[j]) < Count(e, e[k])
         IN Some(e[k])

\* ------------------------------------------------------- the Commute instances
RECURSIVE merge(_, _)
RECURSIVE ZipMerge(_, _, _)

\* OptionMerge with the contribution of `other` lost when both sides are Some
OptionMerge_dropOther(self, other) ==
    IF IsNone(self) THEN [ok |-> TRUE, val |-> other]
    ELSE [ok |-> TRUE, val |-> self]

\* impl Commute for Option<T>
OptionMerge(self, other) ==
    IF IsNone(self) THEN [ok |-> TRUE, val |-> other]
    ELSE IF IsSome(other)
         THEN LET r == merge(Unwrap(self), Unwrap(other))
              IN [ok |-> r.ok, val |-> Some(r.val)]
         ELSE [ok |-> TRUE, val |-> self]

\* ResultMerge with the early return dropped: an Err on the right is ignored
ResultMerge_lastWins(self, other) ==
    IF IsErr(self) THEN [ok |-> TRUE, val |-> other]
    ELSE IF IsErr(other) THEN [ok |-> TRUE, val |-> other]
    ELSE LET r == merge(Unwrap(self), Unwrap(other))
         IN [ok |-> r.ok, val |-> Ok(r.val)]

\* ResultMerge with the Err arm of `match self` made fatal when other is Ok
ResultMerge_fatalErrOk(self, other) ==
    IF ~IsErr(self) /\ IsErr(other) THEN [ok |-> TRUE, val |-> other]
    ELSE IF IsErr(self)
         THEN [ok |-> IsErr(other), val |-> self]
         ELSE LET r == merge(Unwrap(self), Unwrap(other))
              IN [ok |-> r.ok, val |-> Ok(r.val)]

\* impl Commute for Result<T, E>
ResultMerge(self, other) ==
    IF ~IsErr(self) /\ IsErr(other) THEN [ok |-> TRUE, val |-> other]
    ELSE IF IsErr(self) THEN [ok |-> TRUE, val |-> self]
    ELSE IF IsOk(other)
         THEN LET r == merge(Unwrap(self), Unwrap(other))
              IN [ok |-> r.ok, val |-> Ok(r.val)]
         ELSE [ok |-> FALSE, val |-> self]   \* unreachable!()

\* the loop of Vec::merge from index k on: v1.merge(v2) over the zipped pairs
ZipMerge(a, b, k) ==
    IF k > Len(a) \/ k > Len(b) THEN [ok |-> TRUE, val |-> Vec(a)]
    ELSE LET r == merge(a[k], b[k])
             a1 == [a EXCEPT ![k] = r.val]
         IN IF r.ok THEN ZipMerge(a1, b, k + 1)
            ELSE [ok |-> FALSE, val |-> Vec(a1)]

\* VecMerge without the assert_eq!: zip stops at the shorter side
VecMerge_noAssert(self, other) == ZipMerge(self.val, other.val, 1)

\* impl Commute for Vec<T>
VecMerge(self, other) ==
    IF Len(self.val) # Len(other.val) THEN [ok |-> FALSE, val |-> self]  \* assert_eq!
    ELSE ZipMerge(self.val, other.val, 1)

\* Commute::merge, dispatched on the static type of self
merge(self, other) ==
    CASE self.tag \in {"None", "Some"} -> OptionMerge(self, other)
      [] self.tag \in {"Ok", "Err"} -> ResultMerge(self, other)
      [] self.tag = "Vec" -> VecMerge(self, other)
      [] self.tag = "Sorted" -> SortedMerge(self, other)

\* ------------------------------------------------------------------ types
\* A type is the sequence of its constructors, outermost first:
\* <<"Result", "Vec", "Sorted">> is Result<Vec<Sorted<uint>>, E>.
SortedValues == {Sorted(<<1>>), Sorted(<<2>>)}

\* The values of type t; a Vec met at this level is at most maxlen long, and one
\* nested a level deeper one shorter.
RECURSIVE Values(_, _)
Values(t, maxlen) ==
    IF Head(t) = "Sorted" THEN SortedValues
    ELSE LET inner == Values(Tail(t), maxlen - 1)
         IN CASE Head(t) = "Option" -> {None} \cup {Some(x) : x \in inner}
              [] Head(t) = "Result" -> {Ok(x) : x \in inner} \cup {Err(e) : e \in Errors}
              [] Head(t) = "Vec" -> {Vec(e) : e \in SeqsUpTo(inner, maxlen)}

TypeValues(t) == Values(t, MaxLen)
\* the values of T in Option<T>, Result<T, E>, Vec<T>
PayloadValues(t) == Values(Tail(t), MaxLen - 1)

StreamTypes ==
    { <<"Sorted">>,
      <<"Option", "Sorted">>,
      <<"Result", "Sorted">>,
      <<"Vec", "Sorted">>,
      <<"Option", "Result", "Sorted">>,
      <<"Result", "Option", "Sorted">>,
      <<"Option", "Vec", "Sorted">>,
      <<"Result", "Vec", "Sorted">> }

PairTypes ==
    { <<"Vec", "Sorted">>,
      <<"Vec", "Vec", "Sorted">> }

\* ---------------------------------------------------------- idle components
MergeIdle ==
    /\ ty = <<>> /\ s = <<>> /\ i = 0 /\ init = Unset /\ ret = Unset /\ pc = "idle"
PartialIdle == xs = <<>> /\ ords = <<>>
TestIdle ==
    /\ obs = <<>> /\ sorted = <<>> /\ merged = Unset /\ modeRes = Unset /\ tpc = "idle"

\* ------------------------------------------------------- merge_all / consume
\* The iterator `it` is the caller's stream s with a cursor i on its next item.
\* the caller's stream: up to MaxSeq values of one type
InitStream ==
    /\ ty \in StreamTypes
    /\ s \in SeqsUpTo(TypeValues(ty), MaxSeq)
    /\ i = 1
    /\ init = Unset
    /\ ret = Unset
    /\ pc = "start"

\* one self.merge(other) on vectors: streams of at most two values
InitPair ==
    /\ ty \in PairTypes
    /\ s \in SeqsUpTo(TypeValues(ty), 2)
    /\ i = 1
    /\ init = Unset
    /\ ret = Unset
    /\ pc = "start"

\* merge_all: it.next() is None
MergeAllNone ==
    /\ pc = "start"
    /\ i > Len(s)
    /\ ret' = None
    /\ pc' = "done"
    /\ UNCHANGED <<ty, s, i, init>>
    /\ UNCHANGED <<partialVars, testVars>>

\* merge_all: it.next() is Some(init)
MergeAllSome ==
    /\ pc = "start"
    /\ i <= Len(s)
    /\ init' = s[i]
    /\ i' = i + 1
    /\ pc' = "consume"
    /\ UNCHANGED <<ty, s, ret>>
    /\ UNCHANGED <<partialVars, testVars>>

\* ConsumeMerge taking two items of the iterator for one merge
ConsumeMerge_skip ==
    /\ pc = "consume"
    /\ i <= Len(s)
    /\ LET r == merge(init, s[i])
       IN /\ r.ok
          /\ init' = r.val
    /\ i' = i + 2
    /\ UNCHANGED <<ty, s, pc, ret>>
    /\ UNCHANGED <<partialVars, testVars>>

\* consume: self.merge(v) for the next v of the iterator, returning normally
ConsumeMerge ==
    /\ pc = "consume"
    /\ i <= Len(s)
    /\ LET r == merge(init, s[i])
       IN /\ r.ok
          /\ init' = r.val
    /\ i' = i + 1
    /\ UNCHANGED <<ty, s, pc, ret>>
    /\ UNCHANGED <<partialVars, testVars>>

\* consume: self.merge(v) panics; the stack unwinds out of merge_all
ConsumePanic ==
    /\ pc = "consume"
    /\ i <= Len(s)
    /\ LET r == merge(init, s[i])
       IN /\ ~r.ok
          /\ init' = r.val
    /\ pc' = "panicked"
    /\ UNCHANGED <<ty, s, i, ret>>
    /\ UNCHANGED <<partialVars, testVars>>

\* consume: the iterator is exhausted; merge_all returns Some(init)
ConsumeEnd ==
    /\ pc = "consume"
    /\ i > Len(s)
    /\ ret' = Some(init)
    /\ pc' = "done"
    /\ UNCHANGED <<ty, s, i, init>>
    /\ UNCHANGED <<partialVars, testVars>>

Init == InitStream /\ PartialIdle /\ TestIdle
Next ==
    \/ MergeAllNone
    \/ MergeAllSome
    \/ ConsumeMerge
    \/ ConsumePanic
    \/ ConsumeEnd
Spec == Init /\ [][Next]_vars

PairInit == InitPair /\ PartialIdle /\ TestIdle
SpecPair == PairInit /\ [][Next]_vars

\* ------------------------------------------------------------ Partial<T>
\* Partial<f64>: the finite floats 0..MaxFloat and NaN
Float(v) == [nan |-> FALSE, v |-> v]
NaN == [nan |-> TRUE, v |-> 0]
Floats == {Float(v) : v \in 0..MaxFloat} \cup {NaN}

\* the derived PartialOrd of Partial<T>: the partial_cmp of the wrapped value,
\* which for f64 is undefined ("None") as soon as one side is NaN
partial_cmp(a, b) ==
    IF a.nan \/ b.nan THEN "None"
    ELSE IF a.v < b.v THEN "Less"
    ELSE IF a.v = b.v THEN "Equal"
    ELSE "Greater"

\* impl Ord for Partial<T>: self.partial_cmp(other).unwrap_or(Less)
cmp(a, b) == IF partial_cmp(a, b) = "None" THEN "Less" ELSE partial_cmp(a, b)

\* three wrapped values, of which an ordered container compares pairs
InitPartial ==
    /\ xs \in [1..3 -> Floats]
    /\ ords = <<>>

\* xs[j].cmp(&xs[k]) is called and its answer kept
PartialCmp ==
    /\ \E j, k \in DOMAIN xs :
          /\ <<j, k>> \notin DOMAIN ords
          /\ ords' = ords @@ (<<j, k>> :> cmp(xs[j], xs[k]))
    /\ UNCHANGED xs
    /\ UNCHANGED <<mergeVars, testVars>>

PartialStart == MergeIdle /\ InitPartial /\ TestIdle
PartialNext == PartialCmp
SpecPartial == PartialStart /\ [][PartialNext]_vars

\* ------------------------------------------------------------ test::options
Observations ==
    SeqsUpTo(1..MaxVal, MaxObs) \cup {<<2, 1, 3, 2>>, <<5, 6, 5, 5>>}

InitTest ==
    /\ obs \in Observations \X Observations
    /\ sorted = <<>>
    /\ merged = Unset
    /\ modeRes = Unset
    /\ tpc = "collect"

\* let v1 = ...collect(); let v2 = ...collect(); let mut merged = Some(v1);
TestCollect ==
    /\ tpc = "collect"
    /\ sorted' = <<collect(obs[1]), collect(obs[2])>>
    /\ merged' = Some(collect(obs[1]))
    /\ tpc' = "merge"
    /\ UNCHANGED <<obs, modeRes>>
    /\ UNCHANGED <<mergeVars, partialVars>>

\* merged.merge(Some(v2));
TestMerge ==
    /\ tpc = "merge"
    /\ LET r == merge(merged, Some(sorted[2]))
       IN /\ r.ok
          /\ merged' = r.val
    /\ tpc' = "mode"
    /\ UNCHANGED <<obs, sorted, modeRes>>
    /\ UNCHANGED <<mergeVars, partialVars>>

\* merged.unwrap().mode()
TestMode ==
    /\ tpc = "mode"
    /\ IsSome(merged)
    /\ modeRes' = mode(Unwrap(merged))
    /\ tpc' = "done"
    /\ UNCHANGED <<obs, sorted, merged>>
    /\ UNCHANGED <<mergeVars, partialVars>>

TestStart == MergeIdle /\ PartialIdle /\ InitTest
TestNext ==
    \/ TestCollect
    \/ TestMerge
    \/ TestMode
SpecTest == TestStart /\ [][TestNext]_vars

\* ======================================================================
\* Properties
\* ======================================================================
\* a self.merge(other) is about to run, with self = init and other = s[i]
Merging == pc = "consume" /\ i <= Len(s)
\* the call that ran returned normally / panicked
Returned == pc' = "consume" /\ i' = i + 1
Panicked == pc' = "panicked"

\* s[from] merged with s[from + 1], ..., s[to], left to right
RECURSIVE LeftFold(_, _, _)
LeftFold(acc, q, k) ==
    IF k > Len(q) THEN [ok |-> TRUE, val |-> acc]
    ELSE LET r == merge(acc, q[k])
         IN IF r.ok THEN LeftFold(r.val, q, k + 1) ELSE [ok |-> FALSE, val |-> r.val]

\* ---------------------------------------------------------------- C1
\* C1: merge_all returns None on the empty stream, and otherwise Some(v), v
\* being s[1].merge(s[2]); ...; .merge(s[n]) in stream order: at every point
\* of consume the accumulator is the left fold of the items taken so far, each
\* merged once, and a panic happens exactly where that fold panics.
C1_MergeAllIsLeftFold ==
    /\ (pc = "done" /\ s = <<>>) => ret = None
    /\ (pc = "done" /\ s # <<>>) =>
          LET f == LeftFold(s[1], s, 2) IN f.ok /\ ret = Some(f.val) /\ i = Len(s) + 1
    /\ pc = "consume" =>
          /\ i \in 2..(Len(s) + 1)
          /\ LET f == LeftFold(s[1], SubSeq(s, 1, i - 1), 2) IN f.ok /\ init = f.val
    /\ pc = "panicked" =>
          /\ i \in 2..Len(s)
          /\ LET f == LeftFold(s[1], SubSeq(s, 1, i), 2) IN ~f.ok /\ init = f.val

\* a stream of three Results whose order decides the outcome has been folded
C1_Witness ==
    /\ pc = "done"
    /\ ty = <<"Result", "Sorted">>
    /\ Len(s) = 3
    /\ IsOk(s[1]) /\ IsErr(s[2]) /\ IsErr(s[3]) /\ s[2] # s[3]
    /\ ret = Some(s[2])

\* ---------------------------------------------------------------- C2
\* C2: Option::merge: None merged with X leaves self = X; Some(a) merged with
\* Some(b) leaves self = Some(a merged with b); Some(a) merged with None leaves
\* self = Some(a) unchanged.
C2_OptionMerge ==
    [][(Merging /\ Head(ty) = "Option") =>
         LET other == s[i]
         IN /\ IsNone(init) => (init' = other /\ Returned)
            /\ (IsSome(init) /\ IsNone(other)) => (init' = init /\ Returned)
            /\ (IsSome(init) /\ IsSome(other)) =>
                  LET r == merge(Unwrap(init), Unwrap(other))
                  IN /\ init' = Some(r.val)
                     /\ r.ok => Returned]_vars

\* Some(a) has absorbed Some(b)
C2_Witness ==
    /\ pc = "consume"
    /\ ty = <<"Option", "Sorted">>
    /\ i = 3
    /\ s[1] = Some(Sorted(<<1>>)) /\ s[2] = Some(Sorted(<<2>>))
    /\ init = Some(Sorted(<<1, 2>>))

\* ---------------------------------------------------------------- C3
\* C3: Result::merge: if either side is an Err, self is an Err afterwards (Ok
\* merged with Err(e) becomes Err(e); Err(e) stays Err(e)); two Ok merge their
\* payloads and stay Ok; so an Err accumulator never turns Ok again.
C3_ResultMerge ==
    [][(Merging /\ Head(ty) = "Result") =>
         LET other == s[i]
         IN /\ (IsErr(init) \/ IsErr(other)) => IsErr(init')
            /\ (IsOk(init) /\ IsErr(other)) => init' = other
            /\ IsErr(init) => init' = init
            /\ (IsOk(init) /\ IsOk(other)) =>
                  init' = Ok(merge(Unwrap(init), Unwrap(other)).val)]_vars

\* an Ok accumulator took the first error and kept it through a later Ok
C3_Witness ==
    /\ pc = "done"
    /\ Head(ty) = "Result"
    /\ Len(s) = 3
    /\ IsOk(s[1]) /\ IsErr(s[2]) /\ IsOk(s[3])
    /\ ret = Some(s[2])

\* ---------------------------------------------------------------- C4
\* C4 (as stated): merging a Result whose self is already Err with an Ok other
\* is a fatal assertion failure.
C4_ErrOkIsFatal ==
    [][(Merging /\ Head(ty) = "Result" /\ IsErr(init) /\ IsOk(s[i])) => Panicked]_vars

\* C4 (amended): merging a Result whose self is already Err with an Ok other
\* returns normally, leaves self the same Err and drops other.
C4_ErrOkReturns ==
    [][(Merging /\ Head(ty) = "Result" /\ IsErr(init) /\ IsOk(s[i])) =>
         (Returned /\ init' = init)]_vars

\* an Err accumulator has been merged with an Ok and the fold went on to its end
C4_Witness ==
    /\ pc = "done"
    /\ Head(ty) = "Result"
    /\ Len(s) = 2
    /\ IsErr(s[1]) /\ IsOk(s[2])
    /\ ret = Some(s[1])

\* ---------------------------------------------------------------- C5
\* every element merge self[k].merge(other[k]) of two equally long vectors returns
ElementsMerge(a, b) == \A k \in 1..Len(a) : merge(a[k], b[k]).ok

\* C5 (as stated): Vec::merge returns normally if and only if self and other
\* have equal length; on equal lengths the result has that length and its
\* element k is self[k] merged with other[k]; on unequal lengths it fails
\* before any element of self is modified.
C5_VecMergeIffEqualLen ==
    [][(Merging /\ Head(ty) = "Vec") =>
         LET a == init.val
             b == s[i].val
         IN /\ Returned <=> Len(a) = Len(b)
            /\ Len(a) = Len(b) =>
                  /\ Len(init'.val) = Len(a)
                  /\ \A k \in 1..Len(a) : init'.val[k] = merge(a[k], b[k]).val
            /\ Len(a) # Len(b) => (Panicked /\ init' = init)]_vars

\* C5 (amended): Vec::merge returns normally if and only if self and other
\* have equal length and every element merge self[k].merge(other[k]) returns;
\* when it returns, the result has the same length and its element k is
\* self[k] merged with other[k]; on unequal lengths it fails before any
\* element of self is modified.
C5_VecMerge ==
    [][(Merging /\ Head(ty) = "Vec") =>
         LET a == init.val
             b == s[i].val
         IN /\ Returned <=> (Len(a) = Len(b) /\ ElementsMerge(a, b))
            /\ ~Returned => Panicked
            /\ Returned =>
                  /\ IsVec(init')
                  /\ Len(init'.val) = Len(a)
                  /\ \A k \in 1..Len(a) : init'.val[k] = merge(a[k], b[k]).val
            /\ Len(a) # Len(b) => (Panicked /\ init' = init)]_vars

\* two vectors of two different elements each have been merged index for index
C5_Witness ==
    /\ pc = "done"
    /\ ty = <<"Vec", "Sorted">>
    /\ Len(s) = 2
    /\ s[1] = Vec(<<Sorted(<<1>>), Sorted(<<2>>)>>)
    /\ s[2] = Vec(<<Sorted(<<2>>), Sorted(<<2>>)>>)
    /\ ret = Some(Vec(<<Sorted(<<1, 2>>), Sorted(<<2, 2>>)>>))

\* ---------------------------------------------------------------- C6
\* C6: the default value is a left and right identity of merge: for Option,
\* merging X with None and None with X both yield X; for Vec, merging V with
\* the empty Vec and the empty Vec with V both return and yield V.
C6_DefaultIsIdentity ==
    [][(Merging /\ Head(ty) \in {"Option", "Vec"}) =>
         LET other == s[i]
             default == IF Head(ty) = "Option" THEN None ELSE Vec(<<>>)
         IN /\ other = default => (Returned /\ init' = init)
            /\ init = default => (Returned /\ init' = other)]_vars

\* ---------------------------------------------------------------- C7
\* the outcome of a merge, the state of self forgotten when it panics
Outcome(r) == IF r.ok THEN r ELSE [ok |-> FALSE, val |-> Unset]

\* the merge of T in Option<T>, Result<T, E>, Vec<T> is commutative
PayloadCommutes(t) ==
    /\ Len(t) >= 2
    /\ \A x, y \in PayloadValues(t) : Outcome(merge(x, y)) = Outcome(merge(y, x))
CommutingTypes == {t \in StreamTypes : PayloadCommutes(t)}

\* C7: for a payload whose merge is commutative and every pair A, B of
\* Option<T>, of Result<T, E> (two different Err included) or of equally long
\* Vec<T>, A after A.merge(B) equals B after B.merge(A).
C7_MergeCommutes ==
    (pc = "done" /\ Len(s) = 2 /\ ty \in CommutingTypes) =>
        LET r == merge(s[2], s[1]) IN r.ok /\ ret = Some(r.val)

\* ---------------------------------------------------------------- C8
Failure == [ok |-> FALSE, val |-> Unset]

\* the outcomes of all the pairwise tree-reductions of q, its order kept
RECURSIVE TreeOutcomes(_)
TreeOutcomes(q) ==
    IF Len(q) = 1 THEN {[ok |-> TRUE, val |-> q[1]]}
    ELSE UNION { { IF l.ok /\ r.ok THEN Outcome(merge(l.val, r.val)) ELSE Failure :
                     l \in TreeOutcomes(SubSeq(q, 1, k)),
                     r \in TreeOutcomes(SubSeq(q, k + 1, Len(q))) } :
                 k \in 1..(Len(q) - 1) }

\* the outcome of the sequential fold the state machine ran
FoldOutcome == IF pc = "done" THEN [ok |-> TRUE, val |-> Unwrap(ret)] ELSE Failure

\* the merge of T in Option<T>, Result<T, E>, Vec<T> is associative, a panic
\* counting as an outcome
PayloadAssociates(t) ==
    /\ Len(t) >= 2
    /\ \A x, y, z \in PayloadValues(t) :
          TreeOutcomes(<<x, y, z>>) = {Outcome(LeftFold(x, <<x, y, z>>, 2))}
AssociatingTypes == {t \in StreamTypes : PayloadAssociates(t)}

\* the merge of the payload never panics
PayloadTotal(t) == \A x, y \in PayloadValues(t) : merge(x, y).ok
\* Option<T> and Vec<T> over an associative T; Result<T, E> over an associative
\* T whose merge never panics
SafeAssociatingTypes ==
    {t \in AssociatingTypes : Head(t) = "Result" => PayloadTotal(t)}

Compared(j, k) == <<j, k>> \in DOMAIN ords

\* C9: Partial::cmp is a total order over all wrapped values, NaN included:
\* cmp(a, a) = Equal; cmp(a, b) = Less implies cmp(b, a) = Greater and
\* cmp(a, b) = Equal implies cmp(b, a) = Equal; and it is transitive.
C9_CmpIsTotalOrder ==
    \A j, k, l \in DOMAIN xs :
        /\ (Compared(j, k) /\ xs[j] = xs[k]) => ords[<<j, k>>] = "Equal"
        /\ (Compared(j, k) /\ Compared(k, j)) =>
              /\ ords[<<j, k>>] = "Less" => ords[<<k, j>>] = "Greater"
              /\ ords[<<j, k>>] = "Equal" => ords[<<k, j>>] = "Equal"
        /\ (Compared(j, k) /\ Compared(k, l) /\ Compared(j, l)) =>
              /\ (ords[<<j, k>>] # "Greater" /\ ords[<<k, l>>] # "Greater")
                    => ords[<<j, l>>] # "Greater"
              /\ (ords[<<j, k>>] = "Less" /\ ords[<<k, l>>] = "Less")
                    => ords[<<j, l>>] = "Less"

\* ---------------------------------------------------------------- C10
Elements(q) == {q[k] : k \in DOMAIN q}

\* C10: merging Some(S1) with Some(S2), S1 and S2 collected from two
\* observation sequences, yields Some(S), S the multiset union of S1 and S2
\* (counts add), so that mode() of S is a value of greatest total multiplicity
\* over both inputs; for [2,1,3,2] and [5,6,5,5] it is Some(5).
C10_MergedMode ==
    tpc = "done" =>
        LET all == obs[1] \o obs[2]
        IN /\ IsSome(merged)
           /\ Unwrap(merged).tag = "Sorted"
           /\ \A v \in Elements(all) \cup Elements(Unwrap(merged).val) :
                 Count(Unwrap(merged).val, v) = Count(obs[1], v) + Count(obs[2], v)
           /\ all = <<>> => modeRes = None
           /\ all # <<>> =>
                 /\ IsSome(modeRes)
                 /\ \A v \in Elements(all) : Count(all, v) <= Count(all, Unwrap(modeRes))
           /\ obs = << <<2, 1, 3, 2>>, <<5, 6, 5, 5>> >> => modeRes = Some(5)

\* the scenario of test::options has run to its assertion
C10_Witness ==
    /\ tpc = "done"
    /\ obs = << <<2, 1, 3, 2>>, <<5, 6, 5, 5>> >>
    /\ merged = Some(Sorted(<<1, 2, 2, 3, 5, 5, 5, 6>>))
    /\ modeRes = Some(5)

====
